---- MODULE Spec2Model ----
(***************************************************************************)
(* qdrant-analytics-api: an HTTP shim that authenticates requests, shapes  *)
(* analytics events and forwards them to the analytics provider from       *)
(* background tasks that run after the HTTP response was transmitted.      *)
(*                                                                         *)
(* JSON objects and Python dicts are functions from a set of keys (the     *)
(* keys present) to values; `d[k] = v` is Put, `d.get(k, default)` is Get. *)
(* Strings that the code takes apart (urls, the Origin header, message     *)
(* texts) are sequences of tokens.  Python's None is the value None.       *)
(***************************************************************************)
EXTENDS Naturals, Sequences, FiniteSets, TLC

(***************************************************************************)
(* Bounds of the model.                                                    *)
(***************************************************************************)
\* Number of HTTP requests a run serves; they may all be in flight at once.
MaxRequests == 2

Slots == 1..MaxRequests

(***************************************************************************)
(* Python values.                                                          *)
(***************************************************************************)
None == "<None>"
EmptyDict == [k \in {} |-> ""]
Get(d, k, default) == IF k \in DOMAIN d THEN d[k] ELSE default
Put(d, k, v) == (k :> v) @@ d
Pop(d, k) == [j \in DOMAIN d \ {k} |-> d[j]]
\* Python truthiness of an optional string.
Truthy(v) == v # None /\ v # ""

(***************************************************************************)
(* app/constants.py is not part of the sources at hand; the two constants  *)
(* are taken from the specification (sections 6 and 8).                    *)
(***************************************************************************)
NON_CONSENTED_USER_ID == "not_consented"
QDRANT_ANONYMOUS_ID_KEY == "anonymous_id"

\* str(uuid.uuid4()) has 36 characters.
UuidLength == 36
uuid4(r) == [serial |-> r, length |-> UuidLength]
NoUuid == [serial |-> 0, length |-> 0]

(***************************************************************************)
(* Timestamps.  date_format is "%Y-%m-%dT%H:%M:%S.%fZ"; strptime accepts   *)
(* the strings of that format and raises ValueError on every other string. *)
(***************************************************************************)
NowStamp == "2026-01-01T00:00:00.000000Z"
ClientStamp == "2024-05-01T10:00:00.000000Z"
date_format == {NowStamp, ClientStamp}
utc_now_strftime == NowStamp
strptime(s) == IF s \in date_format THEN [raised |-> None, value |-> "datetime " \o s]
               ELSE [raised |-> "ValueError", value |-> None]

(***************************************************************************)
(* Token strings: str.replace(old, "") and str.partition("?").             *)
(***************************************************************************)
StartsWith(s, p) == Len(s) >= Len(p) /\ SubSeq(s, 1, Len(p)) = p

RECURSIVE Replace(_, _)
Replace(s, old) ==
    IF s = <<>> \/ old = <<>> THEN s
    ELSE IF StartsWith(s, old) THEN Replace(SubSeq(s, Len(old) + 1, Len(s)), old)
    ELSE <<Head(s)>> \o Replace(Tail(s), old)

Positions(s, c) == {i \in 1..Len(s) : s[i] = c}
Min(S) == CHOOSE m \in S : \A n \in S : m <= n
\* <<head, tail>> of s around the first occurrence of c; <<s, "">> without one.
Partition(s, c) ==
    IF Positions(s, c) = {} THEN <<s, <<>>>>
    ELSE LET i == Min(Positions(s, c))
         IN  <<SubSeq(s, 1, i - 1), SubSeq(s, i + 1, Len(s))>>

(***************************************************************************)
(* What clients send.  Origin and the urls are token strings.              *)
(***************************************************************************)
TestOrigin == <<"https:", "//", "testurl.com">>
DocsUrl == TestOrigin \o <<"/", "docs", "?", "q=1">>

BrowserHeaders ==
    [origin |-> TestOrigin, referer |-> "https://testurl.com/home",
     user_agent |-> "Mozilla", accept_language |-> <<"en-US", "en;q=0.9">>]

\* The documents of the specification's section 8 and of test_endpoints.py
\* (camelCase keys), sent with the Origin of test_page.
CamelBody ==
    [userId |-> "u1", anonymousId |-> "a1", event |-> "interaction",
     name |-> "test name", category |-> "c", originalTimestamp |-> "",
     properties |-> [title |-> "t", url |-> TestOrigin]]
\* A consenting caller, in the keys utils.py reads.
SnakeBody ==
    [user_id |-> "u1", anonymous_id |-> "a1", event_name |-> "interaction",
     name |-> "docs", originalTimestamp |-> ClientStamp,
     properties |-> [url |-> DocsUrl], context |-> [campaign |-> "c1"]]
\* A caller who opted out (empty anonymous id) but sends a context object.
OptOutBody ==
    [user_id |-> "u1", anonymous_id |-> "", event_name |-> "interaction",
     originalTimestamp |-> ClientStamp,
     context |-> [campaign |-> "c1", ip |-> "203.0.113.9"]]
\* The sentinel sent literally, with a free-text time.
SentinelBody ==
    [anonymous_id |-> NON_CONSENTED_USER_ID, event_name |-> "interaction",
     originalTimestamp |-> "yesterday", context |-> [campaign |-> "c1"]]
\* JSON nulls.
NullBody == [anonymous_id |-> None, user_id |-> None, event_name |-> None]

EmptyClient == [headers |-> EmptyDict, client_host |-> "testclient", body |-> EmptyDict]
CamelClient ==
    [headers |-> [origin |-> TestOrigin], client_host |-> "testclient", body |-> CamelBody]
SnakeClient == [headers |-> BrowserHeaders, client_host |-> "198.51.100.7", body |-> SnakeBody]

Clients ==
    { EmptyClient, CamelClient, SnakeClient,
      [headers |-> BrowserHeaders, client_host |-> "198.51.100.7", body |-> OptOutBody],
      [headers |-> BrowserHeaders, client_host |-> "198.51.100.7", body |-> SentinelBody],
      [headers |-> EmptyDict, client_host |-> "testclient", body |-> NullBody] }
\* /identify and /page never read the body (see identify_body, page_viewed_body).
IdentifyClients == {EmptyClient, CamelClient, SnakeClient}
PageClients == {CamelClient, SnakeClient}
NoClient == [headers |-> EmptyDict, client_host |-> "", body |-> EmptyDict]

\* Values of the x-api-key header (None: no header) and of the environment
\* variable API_AUTHENTICATION_KEY (None: not set, os.getenv returns None).
ApiKeyHeaders == {None, "k1"}
ApiKeySettings == {None, "k1", "k2"}

(***************************************************************************)
(* State.                                                                  *)
(***************************************************************************)
VARIABLES
    API_AUTHENTICATION_KEY, \* dependencies.py: os.getenv("API_AUTHENTICATION_KEY")
    catalogue_only,         \* whether the event schema admits only catalogued event names
    request,                \* per request: stage, endpoint, x-api-key header, client data
    handler,                \* per request: what the handler body did
    response,               \* per request: the response handed to the framework
    background_tasks,       \* per request: BackgroundTasks, the tasks still to run
    outbound,               \* per request: calls made to the provider client
    log,                    \* per request: log records written
    escaped                 \* per request: an exception left a background task

vars == <<API_AUTHENTICATION_KEY, catalogue_only, request, handler, response,
          background_tasks, outbound, log, escaped>>

ProtectedEndpoints ==
    {"GET /", "GET /anonymous_id", "POST /identify", "POST /track", "POST /page"}

NoResponse == [status |-> 0, body |-> EmptyDict, cookies |-> EmptyDict]
\* ran: the handler body ran; args: what create_args returned to it; cookie_set:
\* the cookie it set on the injected Response; facade: the facade methods it
\* called; scheduled: the tasks added to BackgroundTasks while it ran.
NoHandler ==
    [ran |-> FALSE, args |-> EmptyDict, cookie_set |-> NoUuid, facade |-> <<>>,
     scheduled |-> <<>>]
IdleRequest == [stage |-> "idle", endpoint |-> "", x_api_key |-> None, client |-> NoClient]

\* A value returned, or an exception raised.
Returned(v) == [raised |-> None, value |-> v]
Raised(e) == [raised |-> e, value |-> EmptyDict]

(***************************************************************************)
(* dependencies.py                                                         *)
(***************************************************************************)
authenticate(x_api_key) ==
    IF x_api_key # API_AUTHENTICATION_KEY
    THEN [raised |-> "HTTPException", status |-> 401, detail |-> <<"Unauthorized">>]
    ELSE [raised |-> None, status |-> 0, detail |-> <<>>]

(***************************************************************************)
(* utils.py: the request shaper.                                           *)
(***************************************************************************)
\* get_ids without the fallback to the sentinel.
get_ids_raw(data) ==
    <<Get(data, "user_id", None), Get(data, "anonymous_id", None)>>

get_ids(data) ==
    LET user_id == IF "user_id" \in DOMAIN data THEN Get(data, "user_id", None) ELSE None
        anonymous_id == IF Truthy(Get(data, "anonymous_id", None))
                        THEN data["anonymous_id"]
                        ELSE NON_CONSENTED_USER_ID
    IN  <<user_id, anonymous_id>>

format_properties(req, data) ==
    LET properties == Get(data, "properties", EmptyDict)
        origin == Get(req.headers, "origin", <<>>)
        split == Partition(Replace(properties["url"], origin), "?")
        p1 == IF "url" \in DOMAIN properties /\ origin # <<>>
              THEN Put(Put(properties, "path", split[1]), "search", split[2])
              ELSE properties
        p2 == Put(p1, "referrer", Get(req.headers, "referer", None))
        p3 == Put(p2, "originalTimestamp", Get(data, "originalTimestamp", None))
    IN  IF Truthy(Get(data, "name", None)) THEN Put(p3, "name", data["name"]) ELSE p3

\* format_context without the consent check.
format_context_unconditional(req, data, properties, anonymous_id) ==
    LET context == Get(data, "context", EmptyDict)
        c1 == Put(context, "ip", req.client_host)
        c2 == Put(c1, "userAgent", Get(req.headers, "user_agent", None))
        c3 == Put(c2, "locale", Head(Get(req.headers, "accept_language", <<"">>)))
    IN  Put(c3, "page", Pop(format_properties(req, properties), "name"))

format_context(req, data, properties, anonymous_id) ==
    IF anonymous_id = NON_CONSENTED_USER_ID THEN EmptyDict
    ELSE LET context == Get(data, "context", EmptyDict)
             c1 == Put(context, "ip", req.client_host)
             c2 == Put(c1, "userAgent", Get(req.headers, "user_agent", None))
             c3 == Put(c2, "locale", Head(Get(req.headers, "accept_language", <<"">>)))
         IN  Put(c3, "page", Pop(format_properties(req, properties), "name"))

create_args(req, data, exclude_properties) ==
    LET ids == get_ids(data)
        args == [event_name |-> Get(data, "event_name", "no event name"),
                 user_id |-> ids[1],
                 anonymous_id |-> ids[2],
                 integrations |-> Get(data, "integrations", EmptyDict),
                 timestamp |-> Get(data, "originalTimestamp", utc_now_strftime)]
        properties == format_properties(req, data)
        a1 == IF ~exclude_properties THEN Put(args, "properties", properties) ELSE args
    IN  Put(a1, "context", format_context(req, data, properties, ids[2]))

\* A call of create_args with the arguments named in `supplied`: Python binds
\* the arguments first and raises TypeError when the required `data` is missing.
Call_create_args(supplied, req, data, exclude_properties) ==
    IF "data" \notin supplied THEN Raised("TypeError")
    ELSE Returned(create_args(req, data, exclude_properties))

\* `a, b, c, d = value`: unpacking a dict yields its keys and needs exactly four.
Unpack4(value) ==
    IF Cardinality(DOMAIN value) # 4 THEN Raised("ValueError")
    ELSE Returned(value)

(***************************************************************************)
(* The event schemas (qdrant_analytics_events) are an external library.    *)
(* SegmentTrack requires a string event_name; whether it also restricts    *)
(* the name to the catalogued events is not visible from this repository,  *)
(* so either is possible (catalogue_only, fixed when the process starts).  *)
(* model_dump(mode="json") returns the validated fields.                   *)
(***************************************************************************)
EventCatalogue == {"interaction"}

SegmentTrack_model_validate(event_payload) ==
    IF \/ event_payload["event_name"] = None
       \/ catalogue_only /\ event_payload["event_name"] \notin EventCatalogue
    THEN Raised("ValidationError")
    ELSE Returned(event_payload)

SegmentIdentify_model_validate(event) == Returned(event)

SegmentPage_model_validate(event) == Returned(event)

(***************************************************************************)
(* segment/service.py: the deferred delivery tasks.  `provider` is what    *)
(* the provider client does with the call: "ok" and "rejected" are the     *)
(* (success, msg) results, "raises" is an exception of the client.         *)
(***************************************************************************)
ProviderOutcomes == {"ok", "rejected", "raises"}

LogRecord(level, what) == <<level, what>>
NoEffect == [calls |-> <<>>, log |-> <<>>, raised |-> None]

_on_error(error) == <<LogRecord("error", error)>>

ParseTimestamp(event_props) ==
    IF Truthy(event_props["timestamp"]) THEN strptime(event_props["timestamp"])
    ELSE Returned(None)

\* The client call and the logging that follows it.
Deliver(call, provider) ==
    IF provider = "raises"
    THEN [calls |-> <<call>>, log |-> <<>>, raised |-> "ProviderError"]
    ELSE [calls |-> <<call>>,
          log |-> <<LogRecord(IF provider = "ok" THEN "info" ELSE "warning", call.method)>>,
          raised |-> None]

\* try: ... except Exception as error: self._on_error(error)
Try(effect) ==
    IF effect.raised # None
    THEN [effect EXCEPT !.log = @ \o _on_error(effect.raised), !.raised = None]
    ELSE effect

_identify_body(user_id, anonymous_id, event_props, provider) ==
    LET ts == ParseTimestamp(event_props)
    IN  IF ts.raised # None THEN [NoEffect EXCEPT !.raised = ts.raised]
        ELSE Deliver([method |-> "identify", user_id |-> user_id,
                      anonymous_id |-> anonymous_id, event |-> None,
                      props |-> Put(event_props, "timestamp", ts.value)], provider)


_identify(user_id, anonymous_id, event_props, provider) ==
    Try(_identify_body(user_id, anonymous_id, event_props, provider))

_page_viewed_body(user_id, anonymous_id, event_props, provider) ==
    LET ts == ParseTimestamp(event_props)
        stamped == Put(event_props, "timestamp", ts.value)
    IN  IF ts.raised # None THEN [NoEffect EXCEPT !.raised = ts.raised]
        ELSE IF "properties" \notin DOMAIN event_props
        THEN [NoEffect EXCEPT !.raised = "KeyError"]
        ELSE Deliver([method |-> "page", user_id |-> user_id,
                      anonymous_id |-> anonymous_id, event |-> None,
                      props |-> Put(stamped, "properties",
                                    Put(event_props["properties"], "source",
                                        "server_side_analytics"))], provider)


_page_viewed(user_id, anonymous_id, event_props, provider) ==
    Try(_page_viewed_body(user_id, anonymous_id, event_props, provider))

_track_event_body(event_props, provider) ==
    LET ts == ParseTimestamp(event_props)
        stamped == Put(event_props, "timestamp", ts.value)
        rest == Pop(Pop(Pop(stamped, "event_name"), "user_id"), "anonymous_id")
    IN  IF ts.raised # None THEN [NoEffect EXCEPT !.raised = ts.raised]
        ELSE Deliver([method |-> "track", user_id |-> event_props["user_id"],
                      anonymous_id |-> event_props["anonymous_id"],
                      event |-> event_props["event_name"],
                      props |-> rest], provider)

_track_event_unguarded(event_props, provider) ==
    _track_event_body(event_props, provider)

_track_event(event_props, provider) ==
    Try(_track_event_body(event_props, provider))

\* A task as BackgroundTasks.add_task records it: the function and its arguments.
Task(func, args) == [func |-> func, args |-> args]

RunTaskFunction(task, provider) ==
    CASE task.func = "_identify" ->
             _identify(task.args[1], task.args[2], task.args[3], provider)
      [] task.func = "_page_viewed" ->
             _page_viewed(task.args[1], task.args[2], task.args[3], provider)
      [] task.func = "_track_event" ->
             _track_event(task.args[1], provider)

\* The anonymous id a task will deliver.
TaskAnonymousId(task) ==
    IF task.func = "_track_event" THEN task.args[1]["anonymous_id"] ELSE task.args[2]
TaskUserId(task) ==
    IF task.func = "_track_event" THEN task.args[1]["user_id"] ELSE task.args[1]

(***************************************************************************)
(* segment/service.py: the forwarding facade.  Each method returns what it *)
(* did: the tasks added to BackgroundTasks, the provider calls it made     *)
(* itself (none: delivery is left to the tasks), its log records, and the  *)
(* exception it raised to its caller, if any.                              *)
(***************************************************************************)
Facade(ok, tasks, logs, raised) ==
    [ok |-> ok, tasks |-> tasks, calls |-> <<>>, log |-> logs, raised |-> raised]

SegmentService_identify(event) ==
    LET v == SegmentIdentify_model_validate(event)
        event_props == v.value
        user_id == Get(event_props, "user_id", None)
        anonymous_id == Get(event_props, "anonymous_id", NON_CONSENTED_USER_ID)
        rest == Pop(Pop(event_props, "user_id"), "anonymous_id")
    IN  IF v.raised # None THEN Facade(FALSE, <<>>, _on_error(v.raised), None)
        ELSE IF user_id = None \/ anonymous_id = None
        THEN Facade(FALSE, <<>>, _on_error("ValueError"), None)
        ELSE Facade(TRUE, <<Task("_identify", <<user_id, anonymous_id, rest>>)>>, <<>>, None)

SegmentService_page_viewed(event) ==
    LET v == SegmentPage_model_validate(event)
        event_props == v.value
        user_id == Get(event_props, "user_id", None)
        anonymous_id == Get(event_props, "anonymous_id", NON_CONSENTED_USER_ID)
        rest == Pop(Pop(event_props, "user_id"), "anonymous_id")
    IN  IF v.raised # None THEN Facade(FALSE, <<>>, <<>>, v.raised)
        ELSE IF user_id = None /\ anonymous_id = None
        THEN Facade(FALSE, <<>>, <<>>, "ValueError")
        ELSE Facade(TRUE, <<Task("_page_viewed", <<user_id, anonymous_id, rest>>)>>, <<>>, None)

\* A facade that delivers at once instead of handing the event to BackgroundTasks.
SegmentService_track_event_inline(event_payload) ==
    LET v == SegmentTrack_model_validate(event_payload)
        sent == _track_event(v.value, "ok")
    IN  IF v.raised # None
        THEN Facade(FALSE, <<>>, <<LogRecord("warning", "track_event")>>, None)
        ELSE [ok |-> TRUE, tasks |-> <<>>, calls |-> sent.calls, log |-> sent.log,
              raised |-> None]

\* A facade that drops an event another request has already handed over.
SegmentService_track_event_dedup(event_payload) ==
    LET v == SegmentTrack_model_validate(event_payload)
        task == Task("_track_event", <<v.value>>)
        seen == \E q \in Slots : handler[q].scheduled = <<task>>
    IN  IF v.raised # None
        THEN Facade(FALSE, <<>>, <<LogRecord("warning", "track_event")>>, None)
        ELSE IF seen THEN Facade(TRUE, <<>>, <<>>, None)
        ELSE Facade(TRUE, <<task>>, <<>>, None)

SegmentService_track_event(event_payload) ==
    LET v == SegmentTrack_model_validate(event_payload)
        event_props == v.value
    IN  IF v.raised # None
        THEN Facade(FALSE, <<>>, <<LogRecord("warning", "track_event")>>, None)
        ELSE IF event_props["user_id"] = None /\ event_props["anonymous_id"] = None
        THEN Facade(FALSE, <<>>, <<LogRecord("warning", "track_event")>>, None)
        ELSE Facade(TRUE, <<Task("_track_event", <<event_props>>)>>, <<>>, None)

(***************************************************************************)
(* routers/tracking.py and main.py: the handler bodies.  Each returns the  *)
(* response it hands to the framework and what it did on the way.          *)
(***************************************************************************)
Text(s) == <<s>>
JSONResponse(content, status_code) ==
    [status |-> status_code, body |-> content, cookies |-> EmptyDict]
\* The framework's answer to an HTTPException, and to any other exception
\* that leaves a handler.
HTTPExceptionResponse(status_code, detail) ==
    JSONResponse([detail |-> detail], status_code)
InternalServerError == JSONResponse([text |-> Text("Internal Server Error")], 500)

Outcome(resp, args, cookie_set, facade, effects) ==
    [response |-> resp,
     handler |-> [ran |-> TRUE, args |-> args, cookie_set |-> cookie_set, facade |-> facade,
                  scheduled |-> effects.tasks],
     tasks |-> effects.tasks, calls |-> effects.calls, log |-> effects.log]
NoEffects == Facade(TRUE, <<>>, <<>>, None)

\* What is transmitted for a handler's return value: a Response instance as
\* it is; any other value as a 200 JSON response that takes over the cookies
\* set on the injected Response parameter.
FrameworkResponse(returned, is_response, injected_cookies) ==
    IF is_response THEN returned
    ELSE [status |-> 200, body |-> returned, cookies |-> injected_cookies]

root_body(req) ==
    Outcome(FrameworkResponse([message |-> Text("Welcome to the Qdrant Tracking API")],
                              FALSE, EmptyDict),
            EmptyDict, NoUuid, <<>>, NoEffects)

healthcheck_body(req) ==
    Outcome(FrameworkResponse([message |-> Text("healthcheck successful")], FALSE, EmptyDict),
            EmptyDict, NoUuid, <<>>, NoEffects)

get_anonymous_id_body(req, anonymous_id) ==
    LET injected_cookies == Put(EmptyDict, QDRANT_ANONYMOUS_ID_KEY, anonymous_id)
        returned == JSONResponse(Put(EmptyDict, QDRANT_ANONYMOUS_ID_KEY, anonymous_id), 200)
    IN  Outcome(FrameworkResponse(returned, TRUE, injected_cookies),
                EmptyDict, anonymous_id, <<>>, NoEffects)

\* except Exception as error: logger.error(...); return {"Error": error}
identify_except(error) ==
    Outcome(FrameworkResponse([Error |-> Text(error)], FALSE, EmptyDict),
            EmptyDict, NoUuid, <<>>,
            Facade(TRUE, <<>>, <<LogRecord("error", "identify")>>, None))

\* Lines 59-72 of the handler, after the unpacking of create_args' result.
identify_after_unpack(user_id, anonymous_id, args, data) ==
    LET args1 == Put(args, "traits", Get(data, "traits", EmptyDict))
        event == Put(Put(args1, "user_id", user_id), "anonymous_id", anonymous_id)
        f == SegmentService_identify(event)
    IN  IF anonymous_id # NON_CONSENTED_USER_ID
        THEN Outcome(FrameworkResponse([message |-> Text("User identified successfully")],
                                       FALSE, EmptyDict),
                     args1, NoUuid, <<"identify">>, f)
        ELSE Outcome(FrameworkResponse(
                         [message |-> <<"User (", NON_CONSENTED_USER_ID,
                                        ") was not identified">>], FALSE, EmptyDict),
                     args1, NoUuid, <<>>,
                     Facade(TRUE, <<>>, <<LogRecord("warning", "identify")>>, None))

\* The keys of a four-key dict, in the order of the unpacking.
UnpackedKeys(value) ==
    CHOOSE k \in [1..4 -> DOMAIN value] : \A i, j \in 1..4 : k[i] = k[j] => i = j

identify_body(req) ==
    LET c == Call_create_args({"request", "exclude_properties"}, req, EmptyDict, TRUE)
        u == Unpack4(c.value)
        k == UnpackedKeys(u.value)
    IN  IF c.raised # None THEN identify_except(c.raised)
        ELSE IF u.raised # None THEN identify_except(u.raised)
        ELSE identify_after_unpack(k[1], k[2], k[3], k[4])

track_event_body(req) ==
    LET data == req.body
        c == Call_create_args({"request", "data"}, req, data, FALSE)
        args == c.value
        f == SegmentService_track_event(args)
        failed == <<"500: ", "Event track failed. Check logs for event: ",
                    args["event_name"]>>
    IN  IF c.raised # None
        THEN Outcome(HTTPExceptionResponse(500, <<"Error (calling /track): ", c.raised>>),
                     EmptyDict, NoUuid, <<>>,
                     Facade(TRUE, <<>>, <<LogRecord("error", "track")>>, None))
        ELSE IF f.ok
        THEN Outcome(FrameworkResponse([message |-> Text("Event tracked successfully")],
                                       FALSE, EmptyDict),
                     args, NoUuid, <<"track_event">>, f)
        ELSE Outcome(HTTPExceptionResponse(500, <<"Error (calling /track): ">> \o failed),
                     args, NoUuid, <<"track_event">>,
                     [f EXCEPT !.log = @ \o <<LogRecord("error", "track")>>])

\* Lines 118-129 of the handler, after the unpacking of create_args' result.
page_viewed_after_unpack(user_id, anonymous_id, args, data) ==
    LET args1 == Put(args, "category", Get(data, "category", None))
        event == Put(Put(Put(args1, "user_id", user_id), "anonymous_id", anonymous_id),
                     "name", Get(data, "name", None))
        f == SegmentService_page_viewed(event)
    IN  IF f.raised # None
        THEN Outcome(InternalServerError, args1, NoUuid, <<"page_viewed">>, f)
        ELSE Outcome(FrameworkResponse([message |-> Text("Page view tracked successfully")],
                                       FALSE, EmptyDict),
                     args1, NoUuid, <<"page_viewed">>, f)

page_viewed_body(req) ==
    LET c == Call_create_args({"request"}, req, EmptyDict, FALSE)
        u == Unpack4(c.value)
        k == UnpackedKeys(u.value)
    IN  IF c.raised # None \/ u.raised # None
        THEN Outcome(InternalServerError, EmptyDict, NoUuid, <<>>, NoEffects)
        ELSE page_viewed_after_unpack(k[1], k[2], k[3], k[4])

(***************************************************************************)
(* The server.  A request is handled in one step (dependencies, then the   *)
(* handler body), its response is transmitted in a second step, and the    *)
(* framework runs the request's background tasks after that, one by one,   *)
(* in the order in which they were added.                                  *)
(***************************************************************************)
Init ==
    /\ API_AUTHENTICATION_KEY \in ApiKeySettings
    /\ catalogue_only \in BOOLEAN
    /\ request = [r \in Slots |-> IdleRequest]
    /\ handler = [r \in Slots |-> NoHandler]
    /\ response = [r \in Slots |-> NoResponse]
    /\ background_tasks = [r \in Slots |-> <<>>]
    /\ outbound = [r \in Slots |-> <<>>]
    /\ log = [r \in Slots |-> <<>>]
    /\ escaped = [r \in Slots |-> FALSE]

\* Depends(authenticate) raised: the framework answers and the body is not run.
Rejected(auth) ==
    [response |-> HTTPExceptionResponse(auth.status, auth.detail),
     handler |-> NoHandler, tasks |-> <<>>, calls |-> <<>>, log |-> <<>>]

Sent(r) == request[r].stage = "sent"

Calls(r, calls) == [i \in 1..Len(calls) |-> [call |-> calls[i], response_sent |-> Sent(r)]]

Serve(r, endpoint, x_api_key, client, outcome) ==
    /\ request[r].stage = "idle"
    /\ request' = [request EXCEPT ![r] = [stage |-> "handled", endpoint |-> endpoint,
                                          x_api_key |-> x_api_key, client |-> client]]
    /\ handler' = [handler EXCEPT ![r] = outcome.handler]
    /\ response' = [response EXCEPT ![r] = outcome.response]
    /\ background_tasks' = [background_tasks EXCEPT ![r] = outcome.tasks]
    /\ outbound' = [outbound EXCEPT ![r] = @ \o Calls(r, outcome.calls)]
    /\ log' = [log EXCEPT ![r] = @ \o outcome.log]
    /\ UNCHANGED <<API_AUTHENTICATION_KEY, catalogue_only, escaped>>

\* Depends(authenticate): a rejected request is answered by the framework, its
\* handler body is not run and its body is never read, so no client data is
\* recorded for it.
Reject(r, endpoint, x_api_key) ==
    /\ authenticate(x_api_key).raised # None
    /\ Serve(r, endpoint, x_api_key, NoClient, Rejected(authenticate(x_api_key)))

Accept(x_api_key) == authenticate(x_api_key).raised = None

root(r) ==
    \E x_api_key \in ApiKeyHeaders :
        \/ Reject(r, "GET /", x_api_key)
        \/ /\ Accept(x_api_key)
           /\ Serve(r, "GET /", x_api_key, NoClient, root_body(NoClient))

healthcheck(r) ==
    Serve(r, "GET /healthcheck", None, NoClient, healthcheck_body(NoClient))

get_anonymous_id(r) ==
    \E x_api_key \in ApiKeyHeaders :
        \/ Reject(r, "GET /anonymous_id", x_api_key)
        \/ /\ Accept(x_api_key)
           /\ Serve(r, "GET /anonymous_id", x_api_key, NoClient,
                    get_anonymous_id_body(NoClient, uuid4(r)))

identify(r) ==
    \E x_api_key \in ApiKeyHeaders :
        \/ Reject(r, "POST /identify", x_api_key)
        \/ /\ Accept(x_api_key)
           /\ \E client \in IdentifyClients :
                  Serve(r, "POST /identify", x_api_key, client, identify_body(client))

track_event(r) ==
    \E x_api_key \in ApiKeyHeaders :
        \/ Reject(r, "POST /track", x_api_key)
        \/ /\ Accept(x_api_key)
           /\ \E client \in Clients :
                  Serve(r, "POST /track", x_api_key, client, track_event_body(client))

page_viewed(r) ==
    \E x_api_key \in ApiKeyHeaders :
        \/ Reject(r, "POST /page", x_api_key)
        \/ /\ Accept(x_api_key)
           /\ \E client \in PageClients :
                  Serve(r, "POST /page", x_api_key, client, page_viewed_body(client))

\* The response is written to the client.
TransmitResponse(r) ==
    /\ request[r].stage = "handled"
    /\ request' = [request EXCEPT ![r].stage = "sent"]
    /\ UNCHANGED <<API_AUTHENTICATION_KEY, catalogue_only, handler, response,
                   background_tasks, outbound, log, escaped>>

\* The framework runs the next background task of a request whose response
\* has been transmitted.  An exception that leaves the task ends the run of
\* the request's remaining tasks.
RunBackgroundTask(r) ==
    /\ Sent(r)
    /\ background_tasks[r] # <<>>
    /\ \E provider \in ProviderOutcomes :
        LET effect == RunTaskFunction(Head(background_tasks[r]), provider)
        IN  /\ outbound' = [outbound EXCEPT ![r] = @ \o Calls(r, effect.calls)]
            /\ log' = [log EXCEPT ![r] = @ \o effect.log]
            /\ escaped' = [escaped EXCEPT ![r] = @ \/ effect.raised # None]
            /\ background_tasks' =
                   [background_tasks EXCEPT
                       ![r] = IF effect.raised # None THEN <<>> ELSE Tail(@)]
    /\ UNCHANGED <<API_AUTHENTICATION_KEY, catalogue_only, request, handler, response>>

Next ==
    \E r \in Slots :
        \/ root(r)
        \/ healthcheck(r)
        \/ get_anonymous_id(r)
        \/ identify(r)
        \/ track_event(r)
        \/ page_viewed(r)
        \/ TransmitResponse(r)
        \/ RunBackgroundTask(r)

Spec == Init /\ [][Next]_vars

(***************************************************************************)
(* The facade on its own: a handler passes an event to one of the three    *)
(* facade methods and answers; the response is transmitted and the tasks   *)
(* run as above.  The events are those a caller can construct: either      *)
(* identifier may be None and the timestamp is any string or None.         *)
(***************************************************************************)
Event(user_id, anonymous_id, timestamp) ==
    [event_name |-> "interaction", user_id |-> user_id, anonymous_id |-> anonymous_id,
     timestamp |-> timestamp, properties |-> [title |-> "t"], context |-> EmptyDict,
     integrations |-> EmptyDict]

FacadeEvents ==
    { Event("u1", "a1", ClientStamp),
      Event("u1", NON_CONSENTED_USER_ID, None),
      Event(None, "a1", "yesterday"),
      Event("u1", None, ClientStamp),
      Event(None, None, ClientStamp) }

Caller(event) == [headers |-> EmptyDict, client_host |-> "", body |-> event]

Answer(f) ==
    IF f.raised # None THEN InternalServerError
    ELSE FrameworkResponse([message |-> Text("done")], FALSE, EmptyDict)

call_identify(r) ==
    \E event \in FacadeEvents :
        LET f == SegmentService_identify(event)
        IN  Serve(r, "SegmentService.identify", None, Caller(event),
                  Outcome(Answer(f), event, NoUuid, <<"identify">>, f))

call_page_viewed(r) ==
    \E event \in FacadeEvents :
        LET f == SegmentService_page_viewed(event)
        IN  Serve(r, "SegmentService.page_viewed", None, Caller(event),
                  Outcome(Answer(f), event, NoUuid, <<"page_viewed">>, f))

call_track_event(r) ==
    \E event \in FacadeEvents :
        LET f == SegmentService_track_event(event)
        IN  Serve(r, "SegmentService.track_event", None, Caller(event),
                  Outcome(Answer(f), event, NoUuid, <<"track_event">>, f))

FacadeNext ==
    \E r \in Slots :
        \/ call_identify(r)
        \/ call_page_viewed(r)
        \/ call_track_event(r)
        \/ TransmitResponse(r)
        \/ RunBackgroundTask(r)

\* The facade does not read the API key.
FacadeInit == Init /\ API_AUTHENTICATION_KEY = "k1"

FacadeSpec == FacadeInit /\ [][FacadeNext]_vars

(***************************************************************************)
(* Properties.                                                             *)
(***************************************************************************)
Handled(r) == request[r].stage # "idle"
On(r, endpoint) == Handled(r) /\ request[r].endpoint = endpoint
\* The request carried the configured secret.
Authenticated(r) ==
    /\ request[r].x_api_key # None
    /\ request[r].x_api_key = API_AUTHENTICATION_KEY
Body(r) == request[r].client.body
Message(r, text) ==
    /\ response[r].status = 200
    /\ response[r].body = [message |-> text]
Unauthorized401 == HTTPExceptionResponse(401, <<"Unauthorized">>)

\* C1: a request to a protected endpoint whose x-api-key header is absent or
\* differs from the configured secret is answered 401 {"detail": "Unauthorized"},
\* and the handler body does not run, no cookie is set and no task is scheduled.
C1_UnauthorizedIsRejected ==
    \A r \in Slots :
        (/\ Handled(r)
         /\ request[r].endpoint \in ProtectedEndpoints
         /\ ~Authenticated(r))
        => /\ response[r] = Unauthorized401
           /\ ~handler[r].ran
           /\ handler[r].cookie_set = NoUuid
           /\ handler[r].scheduled = <<>>

\* C2: whenever the anonymous id resolved by the request shaper is the sentinel,
\* the context it builds is empty, and so is the context of every task scheduled
\* and of every provider call made for that request.
C2_NoContextWithoutConsent ==
    \A r \in Slots :
        (/\ "anonymous_id" \in DOMAIN handler[r].args
         /\ On(r, "POST /track")
         /\ handler[r].args["anonymous_id"] = NON_CONSENTED_USER_ID)
        => /\ handler[r].args["context"] = EmptyDict
           /\ \A i \in 1..Len(handler[r].scheduled) :
                  handler[r].scheduled[i].args[1]["context"] = EmptyDict
           /\ \A i \in 1..Len(outbound[r]) :
                  DOMAIN outbound[r][i].call.props["context"]
                      \cap {"ip", "userAgent", "locale", "page"} = {}

\* A caller without consent who sent a context object of their own, whose
\* event has been delivered.
C2_Witness ==
    \E r \in Slots :
        /\ On(r, "POST /track")
        /\ "anonymous_id" \in DOMAIN handler[r].args
        /\ handler[r].args["anonymous_id"] = NON_CONSENTED_USER_ID
        /\ "context" \in DOMAIN Body(r)
        /\ Body(r)["context"] # EmptyDict
        /\ outbound[r] # <<>>

\* C3: an authenticated POST /identify whose resolved anonymous id is the
\* sentinel is answered 200 {"message": "User (<sentinel>) was not identified"},
\* the facade's identify is not called and no task is scheduled.
C3_SentinelIsNotIdentified ==
    \A r \in Slots :
        (/\ On(r, "POST /identify")
         /\ Authenticated(r)
         /\ get_ids(Body(r))[2] = NON_CONSENTED_USER_ID)
        => /\ Message(r, <<"User (", NON_CONSENTED_USER_ID, ") was not identified">>)
           /\ handler[r].facade = <<>>
           /\ handler[r].scheduled = <<>>

\* C4: a provider call is made only by a background task, after the response
\* of its request has been transmitted, never by the handler before it answers;
\* and the tasks of a request leave its queue from the head, in the order in
\* which they were scheduled.
C4_CallsAfterResponse ==
    \A r \in Slots :
        /\ \A i \in 1..Len(outbound[r]) : outbound[r][i].response_sent
        /\ ~Sent(r) => outbound[r] = <<>> /\ background_tasks[r] = handler[r].scheduled
        /\ \E n \in 0..Len(handler[r].scheduled) :
               background_tasks[r] =
                   SubSeq(handler[r].scheduled, n + 1, Len(handler[r].scheduled))

\* A provider call has been made for one request while another request, handled
\* in between, still waits for its response with a task scheduled.
C4_Witness ==
    \E r, q \in Slots :
        /\ r # q
        /\ outbound[r] # <<>>
        /\ request[q].stage = "handled"
        /\ background_tasks[q] # <<>>

\* Running a task changes neither the response nor the stage of a request whose
\* response was sent, and nothing of another request.
C5_ResponsesUntouched ==
    \A r \in Slots :
        Sent(r) => /\ response'[r] = response[r]
                   /\ request'[r] = request[r]
                   /\ \A q \in Slots \ {r} :
                          (background_tasks'[r] # background_tasks[r])
                          => /\ background_tasks'[q] = background_tasks[q]
                             /\ outbound'[q] = outbound[q]
                             /\ log'[q] = log[q]
                             /\ response'[q] = response[q]

C5_NothingEscapes ==
    \A r \in Slots :
        /\ ~escaped[r]
        /\ (Sent(r) /\ background_tasks[r] = <<>> /\ handler[r].scheduled # <<>>)
           => /\ Len(log[r]) = Len(handler[r].scheduled)
              /\ LogRecord("error", "ValueError") \in {log[r][i] : i \in 1..Len(log[r])}
                 => outbound[r] = <<>>

\* C5: every exception raised in a background task (timestamp parsing or the
\* provider client) is caught in the task and logged by the error handler; none
\* escapes, and responses and other requests are left as they were.
C5_TaskFailuresAreLoggedAndDropped ==
    [](C5_NothingEscapes) /\ [][C5_ResponsesUntouched]_vars

\* Both kinds of failure have happened, each in a task of its own request,
\* after a 200 response.
C5_Witness ==
    \E r, q \in Slots :
        /\ response[r].status = 200 /\ response[q].status = 200
        /\ handler[r].scheduled # <<>> /\ handler[q].scheduled # <<>>
        /\ log[r] = <<LogRecord("error", "ValueError")>>
        /\ log[q] = <<LogRecord("error", "ProviderError")>>
        /\ outbound[r] = <<>>

\* C6: an authenticated POST /track whose body carries `event` and an
\* anonymousId is answered 200 {"message": "Event tracked successfully"}; one
\* whose body has no `event` is answered 500 with a detail that mentions the
\* event-name placeholder, and no task is scheduled.
C6_TrackNeedsEvent ==
    \A r \in Slots :
        (On(r, "POST /track") /\ Authenticated(r))
        => /\ ("event" \in DOMAIN Body(r) /\ Truthy(Get(Body(r), "anonymousId", None)))
              => Message(r, Text("Event tracked successfully"))
           /\ "event" \notin DOMAIN Body(r)
              => /\ response[r].status = 500
                 /\ "detail" \in DOMAIN response[r].body
                 /\ \E i \in 1..Len(response[r].body["detail"]) :
                        response[r].body["detail"][i] = "no event name"
                 /\ handler[r].scheduled = <<>>

\* C7: an authenticated POST /identify whose body carries a non-empty userId and
\* a non-empty anonymousId is answered 200 {"message": "User identified
\* successfully"}, and the facade's identify is called and schedules one
\* identify task for that user id and anonymous id.
C7_IdentifySucceeds ==
    \A r \in Slots :
        (/\ On(r, "POST /identify")
         /\ Authenticated(r)
         /\ Truthy(Get(Body(r), "userId", None))
         /\ Truthy(Get(Body(r), "anonymousId", None)))
        => /\ Message(r, Text("User identified successfully"))
           /\ handler[r].facade = <<"identify">>
           /\ Len(handler[r].scheduled) = 1
           /\ handler[r].scheduled[1].func = "_identify"
           /\ TaskUserId(handler[r].scheduled[1]) = Body(r)["userId"]
           /\ TaskAnonymousId(handler[r].scheduled[1]) = Body(r)["anonymousId"]

\* The url without its leading origin, split at the first "?".
PathAndSearch(url, origin) == Partition(SubSeq(url, Len(origin) + 1, Len(url)), "?")
HasUrlOfOrigin(r) ==
    /\ "origin" \in DOMAIN request[r].client.headers
    /\ "properties" \in DOMAIN Body(r)
    /\ "url" \in DOMAIN Body(r)["properties"]
    /\ StartsWith(Body(r)["properties"]["url"], request[r].client.headers["origin"])

\* C8: an authenticated POST /page with Origin O and a properties.url that
\* begins with O is answered 200 {"message": "Page view tracked successfully"},
\* and the derived properties carry the path (the url without O, up to the
\* first "?") and the search (what follows it).
C8_PageDerivesPathAndSearch ==
    \A r \in Slots :
        (On(r, "POST /page") /\ Authenticated(r) /\ HasUrlOfOrigin(r))
        => /\ Message(r, Text("Page view tracked successfully"))
           /\ "properties" \in DOMAIN handler[r].args
           /\ LET ps == PathAndSearch(Body(r)["properties"]["url"],
                                      request[r].client.headers["origin"])
                  properties == handler[r].args["properties"]
              IN  /\ properties["path"] = ps[1]
                  /\ properties["search"] = ps[2]

\* C9: an authenticated GET /anonymous_id is answered 200 with a new
\* 36-character identifier in the body, and the transmitted response sets the
\* cookie anonymous_id to the same value.
C9_CookieCarriesAnonymousId ==
    \A r \in Slots :
        (On(r, "GET /anonymous_id") /\ Authenticated(r))
        => /\ response[r].status = 200
           /\ DOMAIN response[r].body = {QDRANT_ANONYMOUS_ID_KEY}
           /\ response[r].body[QDRANT_ANONYMOUS_ID_KEY].length = 36
           /\ \A q \in Slots \ {r} :
                  On(q, "GET /anonymous_id") /\ Authenticated(q)
                  => response[q].body # response[r].body
           /\ QDRANT_ANONYMOUS_ID_KEY \in DOMAIN response[r].cookies
           /\ response[r].cookies[QDRANT_ANONYMOUS_ID_KEY]
                  = response[r].body[QDRANT_ANONYMOUS_ID_KEY]

NonEmptyString(v) == v # None /\ v # ""

\* C10: the anonymous id of every identity pair the request shaper builds, and
\* of every task scheduled and every provider call made from it, is a non-empty
\* string; a missing, null or empty anonymous id in the payload is replaced by
\* the sentinel.
C10_AnonymousIdNeverEmpty ==
    \A r \in Slots :
        "anonymous_id" \in DOMAIN handler[r].args
        => /\ NonEmptyString(handler[r].args["anonymous_id"])
           /\ ~Truthy(Get(Body(r), "anonymous_id", None))
              => handler[r].args["anonymous_id"] = NON_CONSENTED_USER_ID
           /\ \A i \in 1..Len(handler[r].scheduled) :
                  NonEmptyString(TaskAnonymousId(handler[r].scheduled[i]))
           /\ \A i \in 1..Len(outbound[r]) :
                  NonEmptyString(outbound[r][i].call.anonymous_id)

\* Payloads with an empty and with a null anonymous id have been shaped, and
\* the event of the first has been delivered under the sentinel.
C10_Witness ==
    \E r, q \in Slots :
        /\ On(r, "POST /track") /\ On(q, "POST /track")
        /\ Get(Body(r), "anonymous_id", "a1") = ""
        /\ Get(Body(q), "anonymous_id", "a1") = None
        /\ handler[q].args["anonymous_id"] = NON_CONSENTED_USER_ID
        /\ outbound[r] # <<>>
        /\ outbound[r][1].call.anonymous_id = NON_CONSENTED_USER_ID

\* The /track requests answered 200, and the sum of a count over them.
TrackAnswered200 ==
    {r \in Slots : On(r, "POST /track") /\ response[r].status = 200}
RECURSIVE SumOver(_, _)
SumOver(S, count) ==
    IF S = {} THEN 0
    ELSE LET r == CHOOSE x \in S : TRUE
         IN  Len(count[r]) + SumOver(S \ {r}, count)

\* C11: there is no deduplication across requests: every /track request
\* answered 200 has scheduled one delivery task of its own, whatever the other
\* requests were, and each task that has run has left one log record of its
\* own; the track deliveries attempted and still pending are as many as the
\* /track requests answered 200, and a request not answered 200 has none.
C11_NoDeduplication ==
    /\ \A r \in Slots :
           On(r, "POST /track")
           => IF response[r].status = 200
              THEN /\ handler[r].scheduled = <<Task("_track_event", <<handler[r].args>>)>>
                   /\ Len(background_tasks[r]) + Len(log[r]) = 1
                   /\ Len(outbound[r]) <= Len(log[r])
                   /\ \A i \in 1..Len(outbound[r]) : outbound[r][i].call.method = "track"
              ELSE /\ handler[r].scheduled = <<>>
                   /\ background_tasks[r] = <<>>
                   /\ outbound[r] = <<>>
    /\ SumOver(TrackAnswered200, log) + SumOver(TrackAnswered200, background_tasks)
           = Cardinality(TrackAnswered200)

\* The same /track request has been made twice, both were answered 200, and
\* each has had its own delivery, logged in its own record.
C11_Witness ==
    \E r, q \in Slots :
        /\ r # q
        /\ On(r, "POST /track") /\ On(q, "POST /track")
        /\ request[r].client = request[q].client
        /\ response[r].status = 200 /\ response[q].status = 200
        /\ background_tasks[r] = <<>> /\ background_tasks[q] = <<>>
        /\ Len(outbound[r]) = 1 /\ Len(outbound[q]) = 1
        /\ Len(log[r]) = 1 /\ Len(log[q]) = 1

\* C12: the facade's identify enforces the consent invariant itself: for every
\* event passed to SegmentService.identify, no identify task is scheduled that
\* pairs a real (non-null) user_id with the sentinel anonymous id; such an
\* event is logged and skipped, and nothing is raised to the caller.
C12_FacadeIdentifyEnforcesConsent ==
    \A r \in Slots :
        On(r, "SegmentService.identify")
        => /\ \A i \in 1..Len(handler[r].scheduled) :
                  ~(/\ TaskUserId(handler[r].scheduled[i]) # None
                    /\ TaskAnonymousId(handler[r].scheduled[i]) = NON_CONSENTED_USER_ID)
           /\ (/\ Body(r)["user_id"] # None
               /\ Body(r)["anonymous_id"] = NON_CONSENTED_USER_ID)
              => /\ handler[r].scheduled = <<>>
                 /\ log[r] # <<>>
                 /\ response[r] # InternalServerError

====
